---- MODULE Spec2Model ----
(***************************************************************************)
(* Model of SnakeM1Microgame.py: the Snake entity, the power-up lifecycle, *)
(* the per-frame game update and the top-level game-state machine.         *)
(*                                                                         *)
(* Time is measured in hundredths of a second.  The model does not keep    *)
(* the absolute wall clock: it keeps since_move, the value of              *)
(* time() - snake.last_move_time at the latest read of time(), saturated   *)
(* at MOVE_INTERVAL (with speed_multiplier >= 1 every larger value passes  *)
(* the interval test of Snake.move in the same way).                       *)
(* speed_multiplier is kept in tenths (1.0 is 10, 1.5 is 15).              *)
(***************************************************************************)
EXTENDS Integers, Sequences, FiniteSets, TLC

VARIABLES
    GRID_COUNT,           \* module constant GRID_COUNT (fixed by Init)
    state,                \* Game.state
    selected,             \* Game.title_screen.selected
    difficulty,           \* Game.settings.difficulty
    high_scores,          \* Game.settings.high_scores
    file_scores,          \* content of snake_high_scores.json
    snake,                \* Game.snake
    since_move,           \* time() - Game.snake.last_move_time, saturated
    food,                 \* Game.food
    score,                \* Game.score
    power_ups,            \* Game.power_ups
    power_up_spawn_timer, \* Game.power_up_spawn_timer
    high_score,           \* Game.high_score
    running,              \* local `running` of Game.run
    proc,                 \* the process: "running", "exited" (sys.exit()), "crashed"
                          \* (sys.exit(1) of __main__), "hung" (a loop never ends)
    last,                 \* history: what the latest frame of Playing did
    last_input,           \* history: the latest argument of change_direction
    speed_age,            \* history: Playing ticks since the latest Speed collection (-1: none)
    score_age,            \* history: Playing ticks since the latest Score collection (-1: none)
    scn_moves,            \* history of the stand-alone snake: moves that advanced it
    scn_inputs,           \* history of the stand-alone snake: change_direction was called
    scn_dead_moves,       \* history of the stand-alone snake: moves called on it when dead
    scn_ret,              \* history of the stand-alone snake: what the latest move returned
    over_escape,          \* history: K_ESCAPE was handled while state was GAME_OVER
    RECORDING_ENABLED,    \* module global RECORDING_ENABLED
    recording_buffer,     \* Game.recording_buffer
    wav_file,             \* game_audio.wav: whether it was written, and its sample frames
    rec_played            \* history: the sounds dispatched since capture was enabled

vars == <<GRID_COUNT, state, selected, difficulty, high_scores, file_scores, snake,
          since_move, food, score, power_ups, power_up_spawn_timer, high_score,
          running, proc, last, last_input, speed_age, score_age, scn_moves,
          scn_inputs, scn_dead_moves, scn_ret, over_escape, RECORDING_ENABLED,
          recording_buffer, wav_file, rec_played>>

gameVars == <<snake, since_move, food, score, power_ups, power_up_spawn_timer,
              high_score, last, last_input, speed_age, score_age>>

scnVars == <<scn_moves, scn_inputs, scn_dead_moves, scn_ret>>

audioVars == <<RECORDING_ENABLED, recording_buffer, wav_file, rec_played>>

-----------------------------------------------------------------------------
(* Program constants *)

WINDOW_SIZE == 256
GRID_SIZE == 8
FullGrid == WINDOW_SIZE \div GRID_SIZE       \* GRID_COUNT of the program: 32
MOVE_INTERVAL == 10                          \* 0.1 s, in hundredths of a second
SPAWN_SECONDS == 15                          \* FPS * 15
DURATION_SECONDS == 10                       \* 10 * FPS

TITLE == 0
PLAYING == 1
GAME_OVER == 5

SPEED == 1
SHIELD == 2
SCORE == 3
SHRINK == 4
PowerUpTypes == {SPEED, SHIELD, SCORE, SHRINK}

Difficulties == <<"Easy", "Normal", "Hard", "Expert">>
DifficultyNames == {Difficulties[i] : i \in 1..Len(Difficulties)}

\* DIFFICULTY_SPEEDS, in hundredths of a second
DIFFICULTY_SPEEDS ==
    [d \in DifficultyNames |->
        IF d = "Easy" THEN 15
        ELSE IF d = "Normal" THEN 10
        ELSE IF d = "Hard" THEN 7
        ELSE 5]
Options == <<"Start Game", "Settings", "Credits", "Exit">>

(* Bounds of the model *)

FPS == 1            \* ticks per second of simulation (60 in the program)
SmallGrid == 4      \* GRID_COUNT of the bounded game (32 in the program)
MaxScore == 4       \* frames are explored while score < MaxScore
MaxPowerUps == 1    \* a spawn is explored while fewer power-ups are live
MinDt == 3          \* shortest frame time, in hundredths of a second
MaxMoves == 6       \* moves explored by the stand-alone snake scenario
MaxBest == 1        \* largest best score loaded from the store at startup
MaxDeadMoves == 2   \* moves counted on a stand-alone snake that is dead
MaxSounds == 3      \* sounds dispatched while capture is enabled

-----------------------------------------------------------------------------
(* Helpers *)

None == <<>>

Min(a, b) == IF a < b THEN a ELSE b

Interior == (1..(GRID_COUNT - 2)) \X (1..(GRID_COUNT - 2))

Cells(body) == {body[i] : i \in 1..Len(body)}

-----------------------------------------------------------------------------
(* class Snake *)

\* Snake.__init__ (last_move_time = time() is since_move = 0)
NewSnake ==
    [body |-> << <<GRID_COUNT \div 2, GRID_COUNT \div 2>> >>,
     direction |-> <<1, 0>>,
     grow |-> FALSE,
     moved_this_frame |-> FALSE,
     next_direction |-> None,
     dead |-> FALSE,
     shield_active |-> FALSE,
     speed_multiplier |-> 10,
     score_multiplier |-> 1]

\* Game.snake = None of Game.__init__: no body
NoSnake == [NewSnake EXCEPT !.body = <<>>]

\* the wall test of Snake.move
OnBorder(p) ==
    \/ p[1] < 1
    \/ p[1] >= GRID_COUNT - 1
    \/ p[2] < 1
    \/ p[2] >= GRID_COUNT - 1

\* mutant of WrapPosition: the position is left where it is
WrapPositionNone(pos) == pos

\* Snake._wrap_position
WrapPosition(pos) ==
    LET x1 == IF pos[1] < 1 THEN GRID_COUNT - 2 ELSE pos[1]
        x2 == IF x1 >= GRID_COUNT - 1 THEN 1 ELSE x1
        y1 == IF pos[2] < 1 THEN GRID_COUNT - 2 ELSE pos[2]
        y2 == IF y1 >= GRID_COUNT - 1 THEN 1 ELSE y1
    IN <<x2, y2>>

\* Snake.move, "Apply buffered direction if it exists"
ApplyBuffered(s) ==
    IF s.next_direction # None
    THEN [s EXCEPT
            !.direction =
                IF \/ s.direction[1] + s.next_direction[1] # 0
                   \/ s.direction[2] + s.next_direction[2] # 0
                THEN s.next_direction
                ELSE @,
            !.next_direction = None]
    ELSE s

\* mutant of NewHead: the components of the direction are swapped
NewHeadSwapped(s) ==
    <<s.body[1][1] + s.direction[2], s.body[1][2] + s.direction[1]>>

\* Snake.move, the cell in front of the head, before the wall test
NewHead(s) ==
    <<s.body[1][1] + s.direction[1], s.body[1][2] + s.direction[2]>>

\* mutant of SelfCollision: the body is not looked at
SelfCollisionNone(new_head, body) == FALSE

\* Snake.move, "Check for self collision"
SelfCollision(new_head, body) == new_head \in Cells(body)

\* mutant of Advance: the tail is dropped whether or not the flag is set
AdvanceNoGrow(s, new_head) ==
    [s EXCEPT
        !.body = <<new_head>> \o SubSeq(s.body, 1, Len(s.body) - 1),
        !.grow = FALSE]

\* Snake.move, the body after new_head was inserted
Advance(s, new_head) ==
    [s EXCEPT
        !.body = IF s.grow
                 THEN <<new_head>> \o s.body
                 ELSE <<new_head>> \o SubSeq(s.body, 1, Len(s.body) - 1),
        !.grow = FALSE]

\* mutant of ConsumeShield: the wrap leaves the shield up
KeepShield(s) == s

\* Snake.move, "self.shield_active = False"
ConsumeShield(s) == [s EXCEPT !.shield_active = FALSE]

\* mutant of Dead: the flag is not looked at
DeadNever(s) == FALSE

\* Snake.move, "if self.dead"
Dead(s) == s.dead

\* mutant of TooEarly: the interval is not waited for
TooEarlyNever(s, elapsed) == FALSE

\* Snake.move, "Only move after interval has passed":
\* current_time - last_move_time < MOVE_INTERVAL / speed_multiplier
TooEarly(s, elapsed) == elapsed * s.speed_multiplier < MOVE_INTERVAL * 10

\* Snake.move(current_time): elapsed is current_time - last_move_time.
\* snake: the snake afterwards, alive: the return value, moved: whether
\* last_move_time was set to current_time, wall: whether the wall test found
\* the new head on a border cell.
Move(s, elapsed) ==
    IF Dead(s)
    THEN [snake |-> s, alive |-> FALSE, moved |-> FALSE, wall |-> FALSE]
    ELSE IF TooEarly(s, elapsed)
    THEN [snake |-> s, alive |-> TRUE, moved |-> FALSE, wall |-> FALSE]
    ELSE
      LET s1 == ApplyBuffered(s)
          raw == NewHead(s1)
          wall == OnBorder(raw)
      IN IF wall /\ ~s1.shield_active
         THEN [snake |-> [s1 EXCEPT !.dead = TRUE], alive |-> FALSE,
               moved |-> FALSE, wall |-> TRUE]
         ELSE
           LET s2 == IF wall THEN ConsumeShield(s1) ELSE s1
               new_head == IF wall THEN WrapPosition(raw) ELSE raw
           IN IF SelfCollision(new_head, s2.body)
              THEN [snake |-> [s2 EXCEPT !.dead = TRUE], alive |-> FALSE,
                    moved |-> FALSE, wall |-> wall]
              ELSE [snake |-> Advance(s2, new_head), alive |-> TRUE,
                    moved |-> TRUE, wall |-> wall]

\* mutant of ChangeDirection: the new direction is tested against the
\* buffered direction when there is one
ChangeDirectionVsBuffer(s, new_direction) ==
    LET against == IF s.next_direction # None THEN s.next_direction
                   ELSE s.direction
    IN IF \/ against[1] + new_direction[1] # 0
          \/ against[2] + new_direction[2] # 0
       THEN [s EXCEPT !.next_direction = new_direction]
       ELSE s

\* mutant of ChangeDirection: the reversal test is missing
ChangeDirectionAlways(s, new_direction) ==
    [s EXCEPT !.next_direction = new_direction]

\* Snake.change_direction
ChangeDirection(s, new_direction) ==
    IF \/ s.direction[1] + new_direction[1] # 0
       \/ s.direction[2] + new_direction[2] # 0
    THEN [s EXCEPT !.next_direction = new_direction]
    ELSE s

-----------------------------------------------------------------------------
(* class PowerUp and the power-up methods of Game *)

\* PowerUp.__init__
PowerUp(position, type) ==
    [position |-> position,
     type |-> type,
     duration |-> DURATION_SECONDS * FPS,
     active |-> FALSE,
     timer |-> 0]

\* Game._update_power_ups: the loop body for power_ups[i], then the rest of
\* the list.  r is [snake, power_ups] after the power-ups before i.
RECURSIVE UpdatePowerUpsFrom(_, _, _)
UpdatePowerUpsFrom(list, i, r) ==
    IF i > Len(list)
    THEN r
    ELSE
      LET p == list[i]
          t == p.timer + 1
      IN IF ~p.active
         THEN UpdatePowerUpsFrom(list, i + 1,
                  [r EXCEPT !.power_ups = Append(@, p)])
         ELSE IF t >= p.duration
         THEN UpdatePowerUpsFrom(list, i + 1,
                  [r EXCEPT !.snake =
                      IF p.type = SPEED THEN [@ EXCEPT !.speed_multiplier = 10]
                      ELSE IF p.type = SCORE THEN [@ EXCEPT !.score_multiplier = 1]
                      ELSE @])
         ELSE UpdatePowerUpsFrom(list, i + 1,
                  [r EXCEPT !.power_ups = Append(@, [p EXCEPT !.timer = t])])

\* Game._update_power_ups
UpdatePowerUps(s, list) ==
    UpdatePowerUpsFrom(list, 1, [snake |-> s, power_ups |-> <<>>])

\* mutant of SpawnCells: neither the snake nor the food is looked at
SpawnCellsAny(s, f) == Interior

\* Game._spawn_power_up: the cells the rejection loop can leave with
SpawnCells(s, f) == {pos \in Interior : pos \notin Cells(s.body) /\ pos # f}

\* mutant of Shrink: the length test is > 2
ShrinkAboveTwo(body) ==
    IF Len(body) > 2 THEN SubSeq(body, 1, Len(body) - 2) ELSE body

\* mutant of Shrink: the length test is >= 3
ShrinkAtThree(body) ==
    IF Len(body) >= 3 THEN SubSeq(body, 1, Len(body) - 2) ELSE body

\* Game._apply_power_up, the Shrink branch
Shrink(body) ==
    IF Len(body) > 3 THEN SubSeq(body, 1, Len(body) - 2) ELSE body

\* Game._apply_power_up (power_up.active = True is set on an object that the
\* caller removes from power_ups right after)
ApplyPowerUp(s, type) ==
    IF type = SPEED THEN [s EXCEPT !.speed_multiplier = 15]
    ELSE IF type = SHIELD THEN [s EXCEPT !.shield_active = TRUE]
    ELSE IF type = SCORE THEN [s EXCEPT !.score_multiplier = 2]
    ELSE IF type = SHRINK THEN [s EXCEPT !.body = Shrink(@)]
    ELSE s

\* Game._update_game, "Check power-up collection": the loop over power_ups[:]
\* from index i on.  r is [snake, power_ups, collected].
RECURSIVE CollectFrom(_, _, _)
CollectFrom(list, i, r) ==
    IF i > Len(list)
    THEN r
    ELSE IF r.snake.body[1] = list[i].position
    THEN CollectFrom(list, i + 1,
             [r EXCEPT !.snake = ApplyPowerUp(@, list[i].type),
                       !.collected = Append(@, list[i].type)])
    ELSE CollectFrom(list, i + 1, [r EXCEPT !.power_ups = Append(@, list[i])])

Collect(s, list) ==
    CollectFrom(list, 1, [snake |-> s, power_ups |-> <<>>, collected |-> <<>>])

\* mutant of FoodCells: the snake body is not looked at
FoodCellsAny(s) == Interior

\* Game._update_game, the food relocation loop: the cells it can leave with
FoodCells(s) == {pos \in Interior : pos \notin Cells(s.body)}

\* mutant of SaveHighScore: the score is stored without the comparison
SaveHighScoreAlways(table, d, sc) ==
    [table |-> [table EXCEPT ![d] = sc], saved |-> TRUE]

\* Settings.save_high_score, the in-memory update and the return value
SaveHighScore(table, d, sc) ==
    IF sc > table[d]
    THEN [table |-> [table EXCEPT ![d] = sc], saved |-> TRUE]
    ELSE [table |-> table, saved |-> FALSE]

-----------------------------------------------------------------------------
(* class Game *)

Directions == {<<-1, 0>>, <<1, 0>>, <<0, -1>>, <<0, 1>>}

\* the amounts time() can advance by between two frames
FrameTimes == {MinDt, MOVE_INTERVAL}

\* the tables Settings._load_high_scores can return: the defaults, or a
\* stored table of bests
LoadableHighScores ==
    {[d \in DifficultyNames |-> 0]} \cup
    {[d \in DifficultyNames |-> IF d = "Normal" THEN b ELSE 0] : b \in 1..MaxBest}

\* history: a frame that did nothing to snake s.  moved, wall: as returned
\* by Move; body: the body after the move, before the collection;
\* col: the types collected; ate: the head was on the food;
\* elapsed: time() - last_move_time as Snake.move saw it.
NoFrame(s) ==
    [moved |-> FALSE, wall |-> FALSE, body |-> s.body, col |-> <<>>, ate |-> FALSE,
     elapsed |-> 0]

\* history: the age of a timed effect after one more Playing tick
NextAge(age, type, col) ==
    IF \E i \in 1..Len(col) : col[i] = type THEN 0
    ELSE IF age < 0 THEN age
    ELSE Min(age + 1, DURATION_SECONDS * FPS)

\* Game.__init__ and the first lines of Game.run
Init ==
    /\ GRID_COUNT = SmallGrid
    /\ state = TITLE
    /\ selected = 0
    /\ difficulty = "Normal"
    /\ high_scores \in LoadableHighScores
    /\ file_scores = high_scores
    /\ snake = NoSnake
    /\ since_move = 0
    /\ food = None
    /\ score = 0
    /\ power_ups = <<>>
    /\ power_up_spawn_timer = 0
    /\ high_score = FALSE
    /\ running = TRUE
    /\ proc = "running"
    /\ last = NoFrame(NoSnake)
    /\ last_input = None
    /\ speed_age = -1
    /\ score_age = -1
    /\ scn_moves = 0
    /\ scn_inputs = FALSE
    /\ scn_dead_moves = 0
    /\ scn_ret = TRUE
    /\ over_escape = FALSE
    /\ RECORDING_ENABLED = FALSE
    /\ recording_buffer = <<>>
    /\ wav_file = [written |-> FALSE, frames |-> 0]
    /\ rec_played = <<>>

\* Game._start_new_game
StartNewGame ==
    /\ state' = PLAYING
    /\ snake' = NewSnake
    /\ since_move' = 0
    /\ food' \in Interior
    /\ score' = 0
    /\ power_ups' = <<>>
    /\ power_up_spawn_timer' = 0
    /\ high_score' = FALSE
    /\ last' = NoFrame(NewSnake)
    /\ last_input' = None
    /\ speed_age' = -1
    /\ score_age' = -1

\* Game._handle_title_input, K_UP / K_w and the stick pushed up
MenuUp ==
    /\ proc = "running" /\ state = TITLE
    /\ selected' = (selected - 1) % Len(Options)
    /\ UNCHANGED <<GRID_COUNT, state, difficulty, high_scores, file_scores,
                   gameVars, running, proc, scnVars, audioVars,
                   over_escape>>

\* Game._handle_title_input, K_DOWN / K_s and the stick pushed down
MenuDown ==
    /\ proc = "running" /\ state = TITLE
    /\ selected' = (selected + 1) % Len(Options)
    /\ UNCHANGED <<GRID_COUNT, state, difficulty, high_scores, file_scores,
                   gameVars, running, proc, scnVars, audioVars,
                   over_escape>>

\* Game._handle_title_input, K_d
CycleDifficulty ==
    /\ proc = "running" /\ state = TITLE
    /\ LET current_idx == CHOOSE i \in 1..Len(Difficulties) : Difficulties[i] = difficulty
       IN difficulty' = Difficulties[(current_idx % Len(Difficulties)) + 1]
    /\ UNCHANGED <<GRID_COUNT, state, selected, high_scores, file_scores,
                   gameVars, running, proc, scnVars, audioVars,
                   over_escape>>

\* Game._select_menu_option with "Start Game" selected
SelectStart ==
    /\ proc = "running" /\ state = TITLE
    /\ Options[selected + 1] = "Start Game"
    /\ StartNewGame
    /\ UNCHANGED <<GRID_COUNT, selected, difficulty, high_scores, file_scores,
                   running, proc, scnVars, audioVars,
                   over_escape>>

\* Game._select_menu_option with "Exit" selected: quit_game ends the process
SelectExit ==
    /\ proc = "running" /\ state = TITLE
    /\ Options[selected + 1] = "Exit"
    /\ proc' = "exited"
    /\ UNCHANGED <<GRID_COUNT, state, selected, difficulty, high_scores,
                   file_scores, gameVars, running, scnVars, audioVars,
                   over_escape>>

\* Game._handle_game_input, a direction key or the stick
Turn ==
    /\ proc = "running" /\ state = PLAYING
    /\ ~snake.moved_this_frame
    /\ \E d \in Directions :
         /\ snake' = ChangeDirection(snake, d)
         /\ last_input' = d
    /\ UNCHANGED <<GRID_COUNT, state, selected, difficulty, high_scores,
                   file_scores, since_move, food, score, power_ups,
                   power_up_spawn_timer, high_score, running, proc, last,
                   speed_age, score_age, scnVars, audioVars,
                   over_escape>>

\* Game._handle_game_input, K_ESCAPE
Escape ==
    /\ proc = "running" /\ state = PLAYING
    /\ state' = TITLE
    /\ UNCHANGED <<GRID_COUNT, selected, difficulty, high_scores, file_scores,
                   gameVars, running, proc, scnVars, audioVars,
                   over_escape>>

\* Game.handle_input, K_ESCAPE while state is GAME_OVER: neither branch of
\* handle_input is taken, and Game.run updates and draws nothing
EscapeGameOver ==
    /\ proc = "running" /\ state = GAME_OVER
    /\ over_escape' = TRUE
    /\ UNCHANGED <<GRID_COUNT, state, selected, difficulty, high_scores,
                   file_scores, gameVars, running, proc, scnVars, audioVars>>

\* Game.run, a pygame.QUIT event
QuitEvent ==
    /\ proc = "running" /\ running
    /\ running' = FALSE
    /\ UNCHANGED <<GRID_COUNT, state, selected, difficulty, high_scores,
                   file_scores, gameVars, proc, scnVars, audioVars,
                   over_escape>>

\* Game.run, a frame outside Playing after a QUIT event: the loop ends
FrameIdle ==
    /\ proc = "running" /\ state # PLAYING /\ ~running
    /\ proc' = "exited"
    /\ UNCHANGED <<GRID_COUNT, state, selected, difficulty, high_scores,
                   file_scores, gameVars, running, scnVars, audioVars,
                   over_escape>>

\* Game.run after a frame: the process goes on, or the loop ends after a QUIT
AfterFrame == IF running THEN "running" ELSE "exited"

\* the state a frame of Playing leaves behind
FrameEnds(s, sm, f, sc, list, timer, l, pr) ==
    /\ snake' = s
    /\ since_move' = sm
    /\ food' = f
    /\ score' = sc
    /\ power_ups' = list
    /\ power_up_spawn_timer' = timer
    /\ last' = l
    /\ speed_age' = NextAge(speed_age, SPEED, l.col)
    /\ score_age' = NextAge(score_age, SCORE, l.col)
    /\ proc' = pr
    /\ UNCHANGED last_input

\* Game._update_game, the branch taken when Snake.move returns False
GameOverBranch(s, sm, list, timer, l) ==
    IF high_score
    THEN /\ FrameEnds(s, sm, food, score, list, timer, l, AfterFrame)
         /\ state' = GAME_OVER
         /\ UNCHANGED <<high_score, high_scores, file_scores>>
    ELSE
      LET saved == SaveHighScore(high_scores, difficulty, score)
      IN IF ~saved.saved
         THEN /\ FrameEnds(s, sm, food, score, list, timer, l, AfterFrame)
              /\ state' = GAME_OVER
              /\ high_score' = FALSE
              /\ UNCHANGED <<high_scores, file_scores>>
         ELSE \E written \in BOOLEAN :
                /\ high_scores' = saved.table
                /\ IF written
                   THEN /\ FrameEnds(s, sm, food, score, list, timer, l, AfterFrame)
                        /\ file_scores' = saved.table
                        /\ high_score' = TRUE
                        /\ state' = GAME_OVER
                   ELSE \* open or json.dump raises: the exception leaves run()
                        /\ FrameEnds(s, sm, food, score, list, timer, l, "crashed")
                        /\ UNCHANGED <<file_scores, high_score, state>>

\* mutant of Gain: the multiplier is left out
GainOne(s) == 1

\* Game._update_game, "self.score += 1 * self.snake.score_multiplier"
Gain(s) == 1 * s.score_multiplier

\* Game._update_game from the call of Snake.move on
MoveAndCollect(s, elapsed, list, timer) ==
    LET mv == Move(s, elapsed)
        sm == IF mv.moved THEN 0 ELSE elapsed
    IN IF ~mv.alive
       THEN GameOverBranch(mv.snake, sm, list, timer,
                           [moved |-> FALSE, wall |-> mv.wall,
                            body |-> mv.snake.body, col |-> <<>>, ate |-> FALSE,
                            elapsed |-> elapsed])
       ELSE
         LET c == Collect(mv.snake, list)
             eats == c.snake.body[1] = food
             l == [moved |-> mv.moved, wall |-> mv.wall, body |-> mv.snake.body,
                   col |-> c.collected, ate |-> eats, elapsed |-> elapsed]
         IN /\ UNCHANGED <<state, high_score, high_scores, file_scores>>
            /\ IF eats
               THEN IF FoodCells(c.snake) = {}
                    THEN \* the relocation loop never ends
                         FrameEnds([c.snake EXCEPT !.grow = TRUE], sm, food,
                                   score + Gain(c.snake), c.power_ups, timer, l,
                                   "hung")
                    ELSE \E new_food \in FoodCells(c.snake) :
                         FrameEnds([c.snake EXCEPT !.grow = TRUE], sm, new_food,
                                   score + Gain(c.snake), c.power_ups, timer, l,
                                   AfterFrame)
               ELSE FrameEnds(c.snake, sm, food, score, c.power_ups, timer, l,
                              AfterFrame)

\* Game._update_game: one frame of Playing
UpdateGame ==
    /\ proc = "running" /\ state = PLAYING
    /\ score < MaxScore
    /\ \E dt \in FrameTimes :
         LET elapsed == Min(since_move + dt, MOVE_INTERVAL)
             up == UpdatePowerUps(snake, power_ups)
             timer == power_up_spawn_timer + 1
             due == timer >= FPS * SPAWN_SECONDS
         IN IF ~due
            THEN MoveAndCollect(up.snake, elapsed, up.power_ups, timer)
            ELSE /\ Len(up.power_ups) < MaxPowerUps
                 /\ IF SpawnCells(up.snake, food) = {}
                    THEN \* the placement loop never ends
                         /\ FrameEnds(up.snake, since_move, food, score,
                                      up.power_ups, timer, NoFrame(up.snake),
                                      "hung")
                         /\ UNCHANGED <<state, high_score, high_scores, file_scores>>
                    ELSE \E pos \in SpawnCells(up.snake, food), type \in PowerUpTypes :
                           MoveAndCollect(up.snake, elapsed,
                                          Append(up.power_ups, PowerUp(pos, type)), 0)
    /\ UNCHANGED <<GRID_COUNT, selected, difficulty, running, scnVars, audioVars,
                   over_escape>>

\* one session of play: games are started, steered, played and left
Next ==
    \/ SelectStart
    \/ Turn
    \/ Escape
    \/ UpdateGame

Spec == Init /\ [][Next]_vars

\* the application around the game: the menu, the difficulty, the window
\* and the frames of games that are not steered
NextApp ==
    \/ MenuUp
    \/ MenuDown
    \/ CycleDifficulty
    \/ SelectStart
    \/ SelectExit
    \/ Escape
    \/ EscapeGameOver
    \/ QuitEvent
    \/ FrameIdle
    \/ UpdateGame

SpecApp == Init /\ [][NextApp]_vars

-----------------------------------------------------------------------------
(* The stand-alone snake: Snake() on the program's 32 x 32 grid, driven by *)
(* move and change_direction alone.                                        *)

InitSnake ==
    /\ GRID_COUNT = FullGrid
    /\ state = PLAYING
    /\ selected = 0
    /\ difficulty = "Normal"
    /\ high_scores = [d \in DifficultyNames |-> 0]
    /\ file_scores = high_scores
    /\ snake = NewSnake
    /\ since_move = 0
    /\ food = None
    /\ score = 0
    /\ power_ups = <<>>
    /\ power_up_spawn_timer = 0
    /\ high_score = FALSE
    /\ running = TRUE
    /\ proc = "running"
    /\ last = NoFrame(NewSnake)
    /\ last_input = None
    /\ speed_age = -1
    /\ score_age = -1
    /\ scn_moves = 0
    /\ scn_inputs = FALSE
    /\ scn_dead_moves = 0
    /\ scn_ret = TRUE
    /\ over_escape = FALSE
    /\ RECORDING_ENABLED = FALSE
    /\ recording_buffer = <<>>
    /\ wav_file = [written |-> FALSE, frames |-> 0]
    /\ rec_played = <<>>

\* snake.move(time())
SnakeMove ==
    /\ scn_moves < MaxMoves
    /\ \E dt \in FrameTimes :
         LET elapsed == Min(since_move + dt, MOVE_INTERVAL)
             mv == Move(snake, elapsed)
         IN /\ snake' = mv.snake
            /\ since_move' = IF mv.moved THEN 0 ELSE elapsed
            /\ scn_moves' = IF mv.moved THEN scn_moves + 1 ELSE scn_moves
            /\ scn_ret' = mv.alive
    /\ scn_dead_moves' = IF snake.dead
                         THEN Min(scn_dead_moves + 1, MaxDeadMoves)
                         ELSE scn_dead_moves
    /\ UNCHANGED <<GRID_COUNT, state, selected, difficulty, high_scores,
                   file_scores, food, score, power_ups, power_up_spawn_timer,
                   high_score, running, proc, last, last_input, speed_age,
                   score_age, scn_inputs, audioVars, over_escape>>

\* snake.change_direction(d)
SnakeTurn ==
    /\ \E d \in Directions :
         /\ snake' = ChangeDirection(snake, d)
         /\ last_input' = d
    /\ scn_inputs' = TRUE
    /\ UNCHANGED <<GRID_COUNT, state, selected, difficulty, high_scores,
                   file_scores, since_move, food, score, power_ups,
                   power_up_spawn_timer, high_score, running, proc, last,
                   speed_age, score_age, scn_moves, scn_dead_moves, scn_ret,
                   audioVars, over_escape>>

NextSnake == SnakeMove \/ SnakeTurn

SpecSnake == InitSnake /\ [][NextSnake]_vars

\* the stand-alone snake on the bounded grid, where the walls are near
InitSnakeSmall ==
    /\ GRID_COUNT = SmallGrid
    /\ state = PLAYING
    /\ selected = 0
    /\ difficulty = "Normal"
    /\ high_scores = [d \in DifficultyNames |-> 0]
    /\ file_scores = high_scores
    /\ snake = NewSnake
    /\ since_move = 0
    /\ food = None
    /\ score = 0
    /\ power_ups = <<>>
    /\ power_up_spawn_timer = 0
    /\ high_score = FALSE
    /\ running = TRUE
    /\ proc = "running"
    /\ last = NoFrame(NewSnake)
    /\ last_input = None
    /\ speed_age = -1
    /\ score_age = -1
    /\ scn_moves = 0
    /\ scn_inputs = FALSE
    /\ scn_dead_moves = 0
    /\ scn_ret = TRUE
    /\ over_escape = FALSE
    /\ RECORDING_ENABLED = FALSE
    /\ recording_buffer = <<>>
    /\ wav_file = [written |-> FALSE, frames |-> 0]
    /\ rec_played = <<>>

SpecSnakeSmall == InitSnakeSmall /\ [][NextSnake]_vars

-----------------------------------------------------------------------------
(* Audio output and capture: play_sound, the K_r toggle and save_recording, *)
(* with AUDIO_ENABLED set and the four sounds generated.                    *)

SAMPLE_RATE == 44100

Sounds == {"move_sound", "eat_sound", "game_over_sound", "title_sound"}

\* the sample frames of a generated sound: int(SAMPLE_RATE * duration)
SoundFrames(sound) ==
    IF sound = "eat_sound" THEN (SAMPLE_RATE * 7) \div 100
    ELSE IF sound = "move_sound" THEN (SAMPLE_RATE * 3) \div 100
    ELSE IF sound = "game_over_sound" THEN (SAMPLE_RATE * 4) \div 10
    ELSE (SAMPLE_RATE * 8) \div 10

\* an array of the sample data of a sound
SampleArray(sound) == [kind |-> "samples", frames |-> SoundFrames(sound)]

\* what numpy makes of an object that exports no buffer: a 0-dimensional
\* array that holds the object
ObjectArray == [kind |-> "object", frames |-> 0]

\* play_sound with capture enabled: sound.play() returns None ("no_channel"),
\* or a Channel that pygame.sndarray.samples is called with; depending on the
\* pygame and numpy in use the call raises, which play_sound catches
\* ("raises"), or wraps the Channel object in an array ("object")
PlayOutcomes == {"no_channel", "raises", "object"}

\* play_sound: the capture log afterwards
PlaySoundTo(buffer, enabled, sound, outcome) ==
    IF enabled /\ outcome = "object" THEN Append(buffer, ObjectArray) ELSE buffer

RECURSIVE TotalFrames(_)
TotalFrames(buffer) ==
    IF buffer = <<>> THEN 0
    ELSE buffer[1].frames + TotalFrames(Tail(buffer))

\* Game.save_recording: the file afterwards.  np.concatenate raises for
\* 0-dimensional arrays; the exception is caught and nothing is written.
SaveRecording(buffer, file) ==
    IF buffer = <<>> THEN file
    ELSE IF \E i \in 1..Len(buffer) : buffer[i].kind # "samples" THEN file
    ELSE [written |-> TRUE, frames |-> TotalFrames(buffer)]

NoFile == [written |-> FALSE, frames |-> 0]

\* a handler of the game calls play_sound(sound, self.recording_buffer)
PlaySound ==
    /\ proc = "running"
    /\ RECORDING_ENABLED => Len(rec_played) < MaxSounds
    /\ \E sound \in Sounds, outcome \in PlayOutcomes :
         /\ recording_buffer' =
                PlaySoundTo(recording_buffer, RECORDING_ENABLED, sound, outcome)
         /\ rec_played' = IF RECORDING_ENABLED /\ outcome # "no_channel"
                          THEN Append(rec_played, sound)
                          ELSE rec_played
    /\ UNCHANGED <<GRID_COUNT, state, selected, difficulty, high_scores,
                   file_scores, gameVars, running, proc, scnVars, over_escape,
                   RECORDING_ENABLED, wav_file>>

\* Game._handle_game_input, K_r
ToggleRecording ==
    /\ proc = "running" /\ state = PLAYING
    /\ RECORDING_ENABLED' = ~RECORDING_ENABLED
    /\ IF RECORDING_ENABLED /\ recording_buffer # <<>>
       THEN /\ wav_file' = SaveRecording(recording_buffer, wav_file)
            /\ recording_buffer' = <<>>
       ELSE UNCHANGED <<wav_file, recording_buffer>>
    /\ rec_played' = IF RECORDING_ENABLED THEN rec_played ELSE <<>>
    /\ UNCHANGED <<GRID_COUNT, state, selected, difficulty, high_scores,
                   file_scores, gameVars, running, proc, scnVars, over_escape>>

\* a game in progress, capture off
InitAudio ==
    /\ GRID_COUNT = FullGrid
    /\ state = PLAYING
    /\ selected = 0
    /\ difficulty = "Normal"
    /\ high_scores = [d \in DifficultyNames |-> 0]
    /\ file_scores = high_scores
    /\ snake = NewSnake
    /\ since_move = 0
    /\ food = <<1, 1>>
    /\ score = 0
    /\ power_ups = <<>>
    /\ power_up_spawn_timer = 0
    /\ high_score = FALSE
    /\ running = TRUE
    /\ proc = "running"
    /\ last = NoFrame(NewSnake)
    /\ last_input = None
    /\ speed_age = -1
    /\ score_age = -1
    /\ scn_moves = 0
    /\ scn_inputs = FALSE
    /\ scn_dead_moves = 0
    /\ scn_ret = TRUE
    /\ over_escape = FALSE
    /\ RECORDING_ENABLED = FALSE
    /\ recording_buffer = <<>>
    /\ wav_file = NoFile
    /\ rec_played = <<>>

NextAudio == PlaySound \/ ToggleRecording

SpecAudio == InitAudio /\ [][NextAudio]_vars

-----------------------------------------------------------------------------
(* Properties *)

NoDuplicates(body) ==
    \A i, j \in 1..Len(body) : i # j => body[i] # body[j]

Has(col, type) == \E i \in 1..Len(col) : col[i] = type

Count(col, type) == Cardinality({i \in 1..Len(col) : col[i] = type})

\* a step that is a frame of Playing: every frame moves the spawn timer
FrameStep == state = PLAYING /\ power_up_spawn_timer' # power_up_spawn_timer

\* a step that starts a game
StartStep == state = TITLE /\ state' = PLAYING

\* C1: a collected Speed (Score) effect holds its multiplier at 1.5 (2) for
\* the `duration` Playing ticks that follow the collection and has reverted
\* it to 1.0 (1) from the tick that completes the duration on; with no
\* effect collected the multiplier is the default.
C1_EffectRevertsAfterDuration ==
    state = PLAYING =>
        /\ speed_age < 0 => snake.speed_multiplier = 10
        /\ (speed_age >= 0 /\ speed_age < DURATION_SECONDS * FPS)
               => snake.speed_multiplier = 15
        /\ speed_age >= DURATION_SECONDS * FPS => snake.speed_multiplier = 10
        /\ score_age < 0 => snake.score_multiplier = 1
        /\ (score_age >= 0 /\ score_age < DURATION_SECONDS * FPS)
               => snake.score_multiplier = 2
        /\ score_age >= DURATION_SECONDS * FPS => snake.score_multiplier = 1

\* C2: while the snake is alive its body holds no cell twice, whatever the
\* inputs, moves, growth, shield wraps and Shrink applications were.
C2_NoDuplicateCells == ~snake.dead => NoDuplicates(snake.body)

C2_Witness ==
    /\ state = PLAYING /\ ~snake.dead
    /\ last.moved /\ last.wall
    /\ Len(snake.body) >= 3

\* C3 as stated: one Shrink applied to a body shorter than 3 leaves it
\* unchanged, applied to a body of length >= 3 it removes exactly the 2 tail
\* cells.  last.body is the body the Shrink was applied to.
C3_ShrinkFromThree ==
    Count(last.col, SHRINK) = 1 =>
        /\ Len(last.body) < 3 => snake.body = last.body
        /\ Len(last.body) >= 3 =>
               snake.body = SubSeq(last.body, 1, Len(last.body) - 2)

\* C3 amended: one Shrink applied to a body of length <= 3 leaves it
\* unchanged, applied to a body of length > 3 it removes exactly the 2 tail
\* cells and keeps the other cells in order.
C3_ShrinkAboveThree ==
    Count(last.col, SHRINK) = 1 =>
        /\ Len(last.body) <= 3 => snake.body = last.body
        /\ Len(last.body) > 3 =>
               snake.body = SubSeq(last.body, 1, Len(last.body) - 2)

C3_Witness ==
    /\ Count(last.col, SHRINK) = 1
    /\ Len(last.body) = 4
    /\ Len(snake.body) = 2

\* C4: within a game the shield flag falls only in a move whose new head is
\* on a border cell, and such a move always takes it (unless a Shield is
\* collected in the same frame); it rises only by the collection of a Shield
\* power-up; a move onto a border cell with the shield down kills the snake.
C4_ShieldOneShot ==
    [][ /\ (snake.shield_active /\ ~snake'.shield_active /\ ~StartStep)
               => (FrameStep /\ last'.wall)
        /\ (~snake.shield_active /\ snake'.shield_active)
               => (FrameStep /\ Has(last'.col, SHIELD))
        /\ (FrameStep /\ last'.wall /\ snake.shield_active
                /\ ~Has(last'.col, SHIELD))
               => ~snake'.shield_active
        /\ (FrameStep /\ last'.wall /\ ~snake.shield_active)
               => (snake'.dead /\ ~last'.moved)
      ]_vars

C4_Witness ==
    /\ state = PLAYING /\ ~snake.dead
    /\ last.moved /\ last.wall
    /\ ~snake.shield_active

Reverse(d) == <<0 - d[1], 0 - d[2]>>

\* C5: change_direction with the exact reverse of the committed direction
\* changes neither the committed direction nor the buffered one: in every
\* state of a game, and in every step that made such a call.
C5_ReverseInputIgnored ==
    /\ [](state = PLAYING =>
            LET r == ChangeDirection(snake, Reverse(snake.direction))
            IN /\ r.direction = snake.direction
               /\ r.next_direction = snake.next_direction)
    /\ [][ (state = PLAYING /\ last_input' # last_input
                /\ last_input' = Reverse(snake.direction))
               => /\ snake'.direction = snake.direction
                  /\ snake'.next_direction = snake.next_direction
         ]_vars

C5_Witness ==
    /\ state = PLAYING
    /\ last_input = Reverse(snake.direction)
    /\ snake.next_direction # None
    /\ snake.next_direction # last_input

\* C6: after a frame that relocated the food, the food is on an interior
\* cell that no cell of the snake body occupies.
C6_FoodOffSnake ==
    (last.ate /\ proc # "hung") =>
        /\ food \in Interior
        /\ food \notin Cells(snake.body)

C6_Witness ==
    /\ last.ate /\ proc = "running"
    /\ Len(snake.body) >= 2

\* C7: a frame whose food check finds the head on the food adds exactly the
\* score multiplier in force after that frame's power-up collection (2 when
\* a Score power-up was collected in it); within a game no other step
\* changes the score.
C7_ScoreByMultiplier ==
    [][ /\ (FrameStep /\ ~snake'.dead /\ snake'.body[1] = food)
               => score' = score + snake'.score_multiplier
        /\ (FrameStep /\ last'.ate /\ Has(last'.col, SCORE))
               => score' = score + 2
        /\ score' # score
               => \/ StartStep
                  \/ (FrameStep /\ ~snake'.dead /\ snake'.body[1] = food)
      ]_vars

C7_Witness ==
    /\ state = PLAYING
    /\ last.ate /\ Has(last.col, SCORE)
    /\ score >= 2

\* C8: a move that advances the snake lengthens the body by exactly 1 when
\* the growth flag is set, and clears the flag, and leaves the length
\* unchanged when it is clear; no other step of a game changes the body, so
\* after eating the length stays until the next advancing move.
C8_GrowOnNextMove ==
    [][ /\ (FrameStep /\ last'.moved)
               => /\ Len(last'.body)
                        = Len(snake.body) + (IF snake.grow THEN 1 ELSE 0)
                  /\ snake'.grow = last'.ate
        /\ (FrameStep /\ ~last'.moved)
               => /\ snake'.body = snake.body
                  /\ snake'.grow = (snake.grow \/ last'.ate)
        /\ (~FrameStep /\ ~StartStep)
               => /\ snake'.body = snake.body
                  /\ snake'.grow = snake.grow
      ]_vars

C8_Witness ==
    /\ state = PLAYING
    /\ last.moved /\ ~last.ate
    /\ Len(last.body) = 2
    /\ score = 1

\* C9: the step from Playing to GameOver with score s on difficulty D sets
\* the best of D to s when s exceeds it and leaves it otherwise, keeps the
\* bests of the other difficulties, and writes a raised table to the store;
\* no step lowers a best.
C9_HighScoreUpdate ==
    [][ /\ (state = PLAYING /\ state' = GAME_OVER)
               => /\ high_scores' =
                        [high_scores EXCEPT ![difficulty] =
                            IF score > @ THEN score ELSE @]
                  /\ file_scores' = high_scores'
        /\ \A d \in DifficultyNames : high_scores'[d] >= high_scores[d]
      ]_vars

C9_Witness ==
    /\ state = GAME_OVER /\ high_score
    /\ difficulty = "Hard"
    /\ high_scores["Hard"] = score /\ score >= 1
    /\ high_scores["Normal"] = 1

\* C10: a fresh snake on the 32 x 32 grid, advanced by 5 moves with no
\* direction input, has length 1, its head 5 cells to the right of the
\* centre on the same row, and is alive.
C10_FiveMovesRight ==
    (scn_moves = 5 /\ ~scn_inputs) =>
        /\ Len(snake.body) = 1
        /\ snake.body[1] = <<FullGrid \div 2 + 5, FullGrid \div 2>>
        /\ ~snake.dead

C10_Witness ==
    /\ GRID_COUNT = FullGrid
    /\ scn_moves = 5 /\ ~scn_inputs

\* C11: the dead flag of a snake never falls, and a move called on a dead
\* snake returns "not alive" and changes neither the body, the committed
\* direction, the buffered direction, the shield nor last_move_time (the
\* move is not counted as an advance and the clock since the last advance
\* is not reset).
C11_DeathIsTerminal ==
    /\ [](snake.dead =>
            \A elapsed \in 0..MOVE_INTERVAL :
                LET mv == Move(snake, elapsed)
                IN ~mv.alive /\ ~mv.moved /\ mv.snake = snake)
    /\ [][ snake.dead =>
             /\ snake'.dead
             /\ snake'.body = snake.body
             /\ snake'.direction = snake.direction
             /\ snake'.shield_active = snake.shield_active
             /\ scn_moves' = scn_moves
             /\ since_move' >= since_move
             /\ scn_dead_moves' # scn_dead_moves =>
                    /\ ~scn_ret'
                    /\ snake' = snake
         ]_vars

C11_Witness ==
    /\ snake.dead /\ ~scn_ret
    /\ scn_dead_moves = MaxDeadMoves
    /\ snake.next_direction # None

\* C12: the state machine cycles Title -> Playing -> GameOver -> Title: an
\* escape input handled in the GameOver state returns the game to Title.
C12_EscapeLeavesGameOver ==
    [][ (state = GAME_OVER /\ over_escape' # over_escape) => state' = TITLE ]_vars

\* C13: a failed write of the high-score store at game over (the table in
\* memory holds a best that the store does not) is not fatal: the game is in
\* GameOver and the process has not ended with exit code 1.
C13_WriteFailureNotFatal ==
    high_scores # file_scores => (state = GAME_OVER /\ proc # "crashed")

RECURSIVE PlayedFrames(_)
PlayedFrames(played) ==
    IF played = <<>> THEN 0
    ELSE SoundFrames(played[1]) + PlayedFrames(Tail(played))

\* C14: while capture is enabled the capture log holds exactly the sample
\* buffers of the sounds dispatched since it was enabled, in dispatch order;
\* once capture is toggled off after sounds were played, the exported file
\* holds the sum of their sample counts and the log is empty.
C14_CaptureLogHoldsPlayed ==
    /\ RECORDING_ENABLED =>
           recording_buffer =
               [i \in 1..Len(rec_played) |-> SampleArray(rec_played[i])]
    /\ (~RECORDING_ENABLED /\ rec_played # <<>>) =>
           /\ wav_file = [written |-> TRUE, frames |-> PlayedFrames(rec_played)]
           /\ recording_buffer = <<>>

\* C15 as stated: a frame that collected a Shrink shortened the body only
\* if its length was >= 5, so the body is at least 3 cells long afterwards;
\* a shorter body is left as it was.
C15_ShrinkKeepsThree ==
    Has(last.col, SHRINK) =>
        /\ Len(snake.body) < Len(last.body) =>
               (Len(last.body) >= 5 /\ Len(snake.body) >= 3)
        /\ Len(last.body) < 5 => snake.body = last.body

\* C15 amended: a frame that collected a Shrink shortened the body only if
\* its length was > 3, so the body is at least 2 cells long afterwards; a
\* body of length <= 3 is left as it was.
C15_ShrinkKeepsTwo ==
    Has(last.col, SHRINK) =>
        /\ Len(snake.body) < Len(last.body) =>
               (Len(last.body) > 3 /\ Len(snake.body) >= 2)
        /\ Len(last.body) <= 3 => snake.body = last.body

C15_Witness ==
    /\ state = PLAYING /\ ~snake.dead
    /\ Has(last.col, SHRINK)
    /\ Len(snake.body) < Len(last.body)
    /\ Len(snake.body) = 2

\* C16: in every state of a game, from the state right after Start Game
\* through every completed Playing tick, the food is on an interior cell
\* that no cell of the snake body occupies.
C16_FoodNeverOnSnake ==
    (state # TITLE /\ proc # "hung") =>
        /\ food \in Interior
        /\ food \notin Cells(snake.body)

\* the interior cell on the opposite edge for a head at h leaving the
\* interior in direction d
OppositeEdge(h, d) ==
    <<IF d[1] = 1 THEN 1 ELSE IF d[1] = -1 THEN GRID_COUNT - 2 ELSE h[1],
      IF d[2] = 1 THEN 1 ELSE IF d[2] = -1 THEN GRID_COUNT - 2 ELSE h[2]>>

\* C17: every cell of the snake body is an interior cell in every state; a
\* move whose new head is on a border cell either kills the snake and adds
\* no cell, or, with the shield up, puts the head on the interior cell of
\* the opposite edge.
C17_BodyInInterior ==
    /\ [](\A i \in 1..Len(snake.body) : snake.body[i] \in Interior)
    /\ [][ (FrameStep /\ last'.wall) =>
             \/ /\ snake'.dead
                /\ snake'.body = snake.body
             \/ /\ snake.shield_active
                /\ last'.moved
                /\ last'.body[1] = OppositeEdge(snake.body[1], snake'.direction)
                /\ last'.body[1] \in Interior
         ]_vars

C17_Witness ==
    /\ state = PLAYING /\ ~snake.dead
    /\ last.moved /\ last.wall
    /\ snake.direction = <<0, -1>>
    /\ snake.body[1][2] = GRID_COUNT - 2
    /\ Len(snake.body) = 2

\* C18: move called on a living snake before MOVE_INTERVAL / speed_multiplier
\* has passed since last_move_time returns "still alive" and leaves the
\* snake (body, committed and buffered direction, shield, growth flag) and
\* last_move_time as they were; last_move_time is set only by a move that
\* advances the snake, and every advance comes at least one effective
\* interval after the previous one.
C18_MoveWaitsForInterval ==
    /\ []((~snake.dead /\ snake.body # <<>>) =>
            \A elapsed \in 0..MOVE_INTERVAL :
                elapsed * snake.speed_multiplier < MOVE_INTERVAL * 10 =>
                    Move(snake, elapsed) =
                        [snake |-> snake, alive |-> TRUE, moved |-> FALSE,
                         wall |-> FALSE])
    /\ [][ FrameStep =>
             /\ last'.moved =>
                    /\ last'.elapsed * snake.speed_multiplier >= MOVE_INTERVAL * 10
                    /\ since_move' = 0
             /\ ~last'.moved => since_move' >= since_move
             /\ (~last'.moved /\ ~snake'.dead) =>
                    /\ last'.body = snake.body
                    /\ snake'.direction = snake.direction
                    /\ snake'.next_direction = snake.next_direction
         ]_vars

C18_Witness ==
    /\ state = PLAYING /\ ~snake.dead
    /\ ~last.moved
    /\ snake.speed_multiplier = 15
    /\ last.elapsed = 2 * MinDt
    /\ snake.next_direction # None

\* C19: the interval that gates the snake is the duration that
\* DIFFICULTY_SPEEDS maps the selected difficulty to, divided by the speed
\* multiplier: a frame of a living snake that does not advance it came
\* before that interval had passed, and a frame that advances it came after
\* (stated for the durations up to MOVE_INTERVAL, which the clock of the
\* model measures exactly).
C19_IntervalByDifficulty ==
    [][ (FrameStep /\ ~snake.dead) =>
            LET due == last'.elapsed * snake.speed_multiplier
                           >= DIFFICULTY_SPEEDS[difficulty] * 10
            IN /\ (~last'.moved /\ ~snake'.dead) => ~due
               /\ (last'.moved /\ DIFFICULTY_SPEEDS[difficulty] <= MOVE_INTERVAL)
                      => due
      ]_vars

\* C20: a power-up that a frame adds to the list lies on an interior cell
\* that, when the frame began, was neither on the snake body nor the food
\* cell; and in every state no live power-up lies on a cell of the snake
\* body (one that the head reaches is collected and removed in that frame).
C20_PowerUpsOffSnake ==
    /\ [](\A i \in 1..Len(power_ups) :
            /\ power_ups[i].position \in Interior
            /\ power_ups[i].position \notin Cells(snake.body))
    /\ [][ FrameStep =>
             \A i \in 1..Len(power_ups') :
                 \/ \E j \in 1..Len(power_ups) : power_ups[j] = power_ups'[i]
                 \/ /\ power_ups'[i].position \in Interior
                    /\ power_ups'[i].position \notin Cells(snake.body)
                    /\ power_ups'[i].position # food
         ]_vars

C20_Witness ==
    /\ state = PLAYING /\ ~snake.dead
    /\ Len(power_ups) = 1
    /\ power_up_spawn_timer = 0
    /\ last.moved
    /\ Len(snake.body) >= 2

\* C21: whatever inputs and moves came before, several inputs between two
\* moves included, the buffered direction is never the exact reverse of the
\* committed direction, and no step turns the committed direction of a
\* snake into its exact reverse.
C21_NeverReversed ==
    /\ [](snake.next_direction # None =>
            snake.next_direction # Reverse(snake.direction))
    /\ [][ snake'.direction # Reverse(snake.direction) ]_vars

C21_Witness ==
    /\ scn_moves >= 2
    /\ snake.direction = <<-1, 0>>
    /\ last_input = Reverse(snake.direction)
    /\ snake.next_direction = <<0, 1>>

\* C22: the placement loops always end: whenever the food relocation or the
\* power-up spawn is entered, an interior cell that its test accepts exists,
\* so no Playing tick is left spinning in a loop.
C22_PlacementTerminates == proc # "hung"

\* C23: at the end of every Playing tick the collectibles are on distinct
\* cells: the food is on the cell of no live power-up, and no two live
\* power-ups share a cell.
C23_CollectiblesDistinct ==
    (state = PLAYING /\ proc = "running") =>
        /\ \A i \in 1..Len(power_ups) : power_ups[i].position # food
        /\ \A i, j \in 1..Len(power_ups) :
               i # j => power_ups[i].position # power_ups[j].position

====
